---- MODULE Spec2Model ----
(***************************************************************************)
(* Model of the three utility scripts of src/python:                       *)
(*   code_gen_xreg0.py  register-template generator, variant A (X_REG0)    *)
(*   code_gen_xreg1.py  register-template generator, variant B (X_REG1)    *)
(*   temp.py            interrupt-mask calculator                          *)
(* Text is a sequence of one-character strings; a file is the sequence of  *)
(* its characters, read with readline as the scripts do.                   *)
(***************************************************************************)
EXTENDS Integers, Sequences, FiniteSets, TLC

VARIABLES entry, file, pos, input_str, pc, stdout, lines, count

vars == <<entry, file, pos, input_str, pc, stdout, lines, count>>

\* Longest input file, in lines, and most function calls made on the
\* imported calculator module.
MaxLines == 2
MaxCalls == 3

(***************************************************************************)
(* Character classes of Python's re module, restricted to ASCII.           *)
(***************************************************************************)
WordChars ==
    {"a","b","c","d","e","f","g","h","i","j","k","l","m",
     "n","o","p","q","r","s","t","u","v","w","x","y","z",
     "A","B","C","D","E","F","G","H","I","J","K","L","M",
     "N","O","P","Q","R","S","T","U","V","W","X","Y","Z",
     "0","1","2","3","4","5","6","7","8","9","_"}

Whitespace == {" ", "\t", "\n", "\r", "\f"}

\* The literal text the pattern starts with: X_REG0!\( or X_REG1!\(
MacroHead0 == <<"X","_","R","E","G","0","!","(">>

MacroHead1 == <<"X","_","R","E","G","1","!","(">>

MacroHead(v) == IF v = 0 THEN MacroHead0 ELSE MacroHead1

\* The literal text the pattern ends with: \);
MacroTail == <<")", ";">>

\* The index just past the longest run of characters of class C that starts
\* at index i of s: a greedy C* (C+ when the run is required non-empty).
RECURSIVE SpanEnd(_, _, _)
SpanEnd(s, i, C) ==
    IF i <= Len(s) /\ s[i] \in C THEN SpanEnd(s, i + 1, C) ELSE i

\* The literal lit occurs in s at index i.
HasAt(s, i, lit) ==
    /\ i + Len(lit) - 1 <= Len(s)
    /\ SubSeq(s, i, i + Len(lit) - 1) = lit

\* A pattern anchored at both ends (re.fullmatch, or a trailing $): the
\* match must end at the end of the line or right before its terminator.
re_match_anchored(v, s) ==
    LET p1 == 1 + Len(MacroHead(v))
        p2 == SpanEnd(s, p1, WordChars)
        p3 == p2 + 1
        p4 == SpanEnd(s, p3, Whitespace)
        p5 == SpanEnd(s, p4, WordChars)
        p6 == p5 + Len(MacroTail)
        ok == /\ HasAt(s, 1, MacroHead(v))
              /\ p2 > p1
              /\ HasAt(s, p2, <<",">>)
              /\ p5 > p4
              /\ HasAt(s, p5, MacroTail)
              /\ \/ p6 > Len(s)
                 \/ p6 = Len(s) /\ s[p6] = "\n"
    IN  IF ok
        THEN [matched |-> TRUE, group1 |-> SubSeq(s, p1, p2 - 1),
              group2 |-> SubSeq(s, p4, p5 - 1)]
        ELSE [matched |-> FALSE, group1 |-> <<>>, group2 |-> <<>>]

\* A pattern whose comma is optional: MACRO!\((\w+),?\s*(\w+)\);
re_match_optional_comma(v, s) ==
    LET p1 == 1 + Len(MacroHead(v))
        p2 == SpanEnd(s, p1, WordChars)
        p3 == IF HasAt(s, p2, <<",">>) THEN p2 + 1 ELSE p2
        p4 == SpanEnd(s, p3, Whitespace)
        p5 == SpanEnd(s, p4, WordChars)
        ok == /\ HasAt(s, 1, MacroHead(v))
              /\ p2 > p1
              /\ p5 > p4
              /\ HasAt(s, p5, MacroTail)
    IN  IF ok
        THEN [matched |-> TRUE, group1 |-> SubSeq(s, p1, p2 - 1),
              group2 |-> SubSeq(s, p4, p5 - 1)]
        ELSE [matched |-> FALSE, group1 |-> <<>>, group2 |-> <<>>]

\* re.match(r'X_REGv!\((\w+),\s*(\w+)\);', s): the pattern is matched at the
\* start of s and need not reach its end.  No character of \w is a comma,
\* no whitespace character is in \w and ')' is not in \w, so backtracking
\* into a shorter run never helps and each greedy run is the longest one.
re_match(v, s) ==
    LET p1 == 1 + Len(MacroHead(v))
        p2 == SpanEnd(s, p1, WordChars)
        p3 == p2 + 1
        p4 == SpanEnd(s, p3, Whitespace)
        p5 == SpanEnd(s, p4, WordChars)
        ok == /\ HasAt(s, 1, MacroHead(v))
              /\ p2 > p1
              /\ HasAt(s, p2, <<",">>)
              /\ p5 > p4
              /\ HasAt(s, p5, MacroTail)
    IN  IF ok
        THEN [matched |-> TRUE, group1 |-> SubSeq(s, p1, p2 - 1),
              group2 |-> SubSeq(s, p4, p5 - 1)]
        ELSE [matched |-> FALSE, group1 |-> <<>>, group2 |-> <<>>]

\* extract_macro_parameters: the two groups of the match, or ValueError
\* (raised = TRUE) when the line does not match.
extract_macro_parameters(v, s) ==
    LET match == re_match(v, s)
    IN  IF match.matched
        THEN [raised |-> FALSE, reg_name |-> match.group1,
              reg_addr |-> match.group2]
        ELSE [raised |-> TRUE, reg_name |-> <<>>, reg_addr |-> <<>>]

(***************************************************************************)
(* The templates of generate_code, one record per line of text.            *)
(*   lit    a line of literal text                                         *)
(*   const  a line "const NAME = genmask!(a, b);" or "const NAME = a << b;"*)
(*          whose NAME is kept as its parts between the field separators   *)
(*   subst  a line text {ph} post holding one placeholder                  *)
(* val is what the placeholder was replaced by, empty in the template.     *)
(***************************************************************************)
Lit(t) ==
    [kind |-> "lit", text |-> t, ph |-> "", post |-> "", name |-> <<>>,
     op |-> "", a |-> 0, b |-> 0, val |-> <<>>]

Const(n, o, x, y) ==
    [kind |-> "const", text |-> "        const ", ph |-> "", post |-> ";",
     name |-> n, op |-> o, a |-> x, b |-> y, val |-> <<>>]

Subst(t, p, q) ==
    [kind |-> "subst", text |-> t, ph |-> p, post |-> q, name |-> <<>>,
     op |-> "", a |-> 0, b |-> 0, val |-> <<>>]

\* The lines every template ends with, XRegN being the trait of the variant.
TemplateImpls(trait) ==
    << Lit(""),
       Subst("impl FlagReg for ", "reg_name", " {"),
       Subst("    const REG: u32 = ", "reg_addr", ";"),
       Lit("}"),
       Lit(""),
       Subst("impl From<u32> for ", "reg_name", " {"),
       Lit("    fn from(x: u32) -> Self {"),
       Lit("        Self::from_bits_truncate(x)"),
       Lit("    }"),
       Lit("}"),
       Lit(""),
       Subst("impl Into<u32> for ", "reg_name", " {"),
       Lit("    fn into(self) -> u32 {"),
       Lit("        self.bits()"),
       Lit("    }"),
       Lit("}"),
       Lit(""),
       Subst(trait, "reg_name", " {"),
       Lit(""),
       Lit("}") >>

TemplateHead ==
    << Lit("bitflags! {"),
       Subst("    struct ", "reg_name", ": u32 {") >>

TemplateClose == << Lit("    }"), Lit("}") >>

\* Variant A with the top bit of the drive field declared one place too high.
Template0_drive_shifted ==
    TemplateHead \o
    << Const(<<"PULL", "MASK">>, "genmask", 9, 8),
       Const(<<"DRIVE", "MASK">>, "genmask", 7, 4),
       Const(<<"FUNC", "MASK">>, "genmask", 2, 0),
       Const(<<"FUNC", "BIT0">>, "shl", 1, 0),
       Const(<<"FUNC", "BIT1">>, "shl", 1, 1),
       Const(<<"FUNC", "BIT2">>, "shl", 1, 2),
       Const(<<"DRIVE", "BIT0">>, "shl", 1, 4),
       Const(<<"DRIVE", "BIT1">>, "shl", 1, 5),
       Const(<<"DRIVE", "BIT2">>, "shl", 1, 6),
       Const(<<"DRIVE", "BIT3">>, "shl", 1, 8),
       Const(<<"PULL", "BIT0">>, "shl", 1, 8),
       Const(<<"PULL", "BIT1">>, "shl", 1, 9) >> \o
    TemplateClose \o TemplateImpls("impl XReg0 for ")

\* code_gen_xreg0.py, the f-string of generate_code
Template0 ==
    TemplateHead \o
    << Const(<<"PULL", "MASK">>, "genmask", 9, 8),
       Const(<<"DRIVE", "MASK">>, "genmask", 7, 4),
       Const(<<"FUNC", "MASK">>, "genmask", 2, 0),
       Const(<<"FUNC", "BIT0">>, "shl", 1, 0),
       Const(<<"FUNC", "BIT1">>, "shl", 1, 1),
       Const(<<"FUNC", "BIT2">>, "shl", 1, 2),
       Const(<<"DRIVE", "BIT0">>, "shl", 1, 4),
       Const(<<"DRIVE", "BIT1">>, "shl", 1, 5),
       Const(<<"DRIVE", "BIT2">>, "shl", 1, 6),
       Const(<<"DRIVE", "BIT3">>, "shl", 1, 7),
       Const(<<"PULL", "BIT0">>, "shl", 1, 8),
       Const(<<"PULL", "BIT1">>, "shl", 1, 9) >> \o
    TemplateClose \o TemplateImpls("impl XReg0 for ")

\* Variant B with the input-delay enable bit left out.
Template1_no_in_en ==
    TemplateHead \o
    << Const(<<"OUT_DELAY", "EN">>, "shl", 1, 8),
       Const(<<"OUT_DELAY", "DELICATE", "MASK">>, "genmask", 11, 9),
       Const(<<"OUT_DELAY", "DELICATE", "BIT0">>, "shl", 1, 9),
       Const(<<"OUT_DELAY", "DELICATE", "BIT1">>, "shl", 1, 10),
       Const(<<"OUT_DELAY", "DELICATE", "BIT2">>, "shl", 1, 11),
       Const(<<"OUT_DELAY", "ROUGH", "MASK">>, "genmask", 14, 12),
       Const(<<"OUT_DELAY", "ROUGH", "BIT0">>, "shl", 1, 12),
       Const(<<"OUT_DELAY", "ROUGH", "BIT1">>, "shl", 1, 13),
       Const(<<"OUT_DELAY", "ROUGH", "BIT2">>, "shl", 1, 14),
       Const(<<"IN_DELAY", "DELICATE", "MASK">>, "genmask", 3, 1),
       Const(<<"IN_DELAY", "DELICATE", "BIT0">>, "shl", 1, 1),
       Const(<<"IN_DELAY", "DELICATE", "BIT1">>, "shl", 1, 2),
       Const(<<"IN_DELAY", "DELICATE", "BIT2">>, "shl", 1, 3),
       Const(<<"IN_DELAY", "ROUGH", "MASK">>, "genmask", 6, 4),
       Const(<<"IN_DELAY", "ROUGH", "BIT0">>, "shl", 1, 4),
       Const(<<"IN_DELAY", "ROUGH", "BIT1">>, "shl", 1, 5),
       Const(<<"IN_DELAY", "ROUGH", "BIT2">>, "shl", 1, 6) >> \o
    TemplateClose \o TemplateImpls("impl XReg1 for ")

\* code_gen_xreg1.py, the f-string of generate_code
Template1 ==
    TemplateHead \o
    << Const(<<"OUT_DELAY", "EN">>, "shl", 1, 8),
       Const(<<"OUT_DELAY", "DELICATE", "MASK">>, "genmask", 11, 9),
       Const(<<"OUT_DELAY", "DELICATE", "BIT0">>, "shl", 1, 9),
       Const(<<"OUT_DELAY", "DELICATE", "BIT1">>, "shl", 1, 10),
       Const(<<"OUT_DELAY", "DELICATE", "BIT2">>, "shl", 1, 11),
       Const(<<"OUT_DELAY", "ROUGH", "MASK">>, "genmask", 14, 12),
       Const(<<"OUT_DELAY", "ROUGH", "BIT0">>, "shl", 1, 12),
       Const(<<"OUT_DELAY", "ROUGH", "BIT1">>, "shl", 1, 13),
       Const(<<"OUT_DELAY", "ROUGH", "BIT2">>, "shl", 1, 14),
       Const(<<"IN_DELAY", "EN">>, "shl", 1, 0),
       Const(<<"IN_DELAY", "DELICATE", "MASK">>, "genmask", 3, 1),
       Const(<<"IN_DELAY", "DELICATE", "BIT0">>, "shl", 1, 1),
       Const(<<"IN_DELAY", "DELICATE", "BIT1">>, "shl", 1, 2),
       Const(<<"IN_DELAY", "DELICATE", "BIT2">>, "shl", 1, 3),
       Const(<<"IN_DELAY", "ROUGH", "MASK">>, "genmask", 6, 4),
       Const(<<"IN_DELAY", "ROUGH", "BIT0">>, "shl", 1, 4),
       Const(<<"IN_DELAY", "ROUGH", "BIT1">>, "shl", 1, 5),
       Const(<<"IN_DELAY", "ROUGH", "BIT2">>, "shl", 1, 6) >> \o
    TemplateClose \o TemplateImpls("impl XReg1 for ")

Template(v) == IF v = 0 THEN Template0 ELSE Template1

\* generate_code with its two arguments used the wrong way round.
generate_code_swapped(v, reg_name, reg_addr) ==
    [i \in DOMAIN Template(v) |->
        [Template(v)[i] EXCEPT !.val =
            IF Template(v)[i].ph = "reg_name" THEN reg_addr
            ELSE IF Template(v)[i].ph = "reg_addr" THEN reg_name
            ELSE <<>>]]

\* generate_code: the f-string with {reg_name} and {reg_addr} filled in.
generate_code(v, reg_name, reg_addr) ==
    [i \in DOMAIN Template(v) |->
        [Template(v)[i] EXCEPT !.val =
            IF Template(v)[i].ph = "reg_name" THEN reg_name
            ELSE IF Template(v)[i].ph = "reg_addr" THEN reg_addr
            ELSE <<>>]]

(***************************************************************************)
(* file.readline(): the characters from the read position up to and        *)
(* including the next line terminator, or up to the end of the file; the   *)
(* empty string at the end of the file.                                    *)
(***************************************************************************)
RECURSIVE LineEnd(_, _)
LineEnd(f, i) ==
    IF i > Len(f) THEN Len(f)
    ELSE IF f[i] = "\n" THEN i
    ELSE LineEnd(f, i + 1)

readline(f, p) == SubSeq(f, p, LineEnd(f, p))

(***************************************************************************)
(* temp.py: integer arithmetic of the mask calculator.                     *)
(***************************************************************************)
Shl(x, n) == x * 2 ^ n

RECURSIVE BitOr(_, _)
BitOr(x, y) ==
    IF x = 0 THEN y
    ELSE IF y = 0 THEN x
    ELSE (IF x % 2 = 1 \/ y % 2 = 1 THEN 1 ELSE 0)
         + 2 * BitOr(x \div 2, y \div 2)

HexDigit(d) ==
    <<"0","1","2","3","4","5","6","7","8","9","a","b","c","d","e","f">>[d + 1]

RECURSIVE HexDigits(_)
HexDigits(n) ==
    IF n < 16 THEN <<HexDigit(n)>>
    ELSE Append(HexDigits(n \div 16), HexDigit(n % 16))

\* The format specification #x: 0x, then lowercase digits, no padding.
FormatHex(n) == <<"0", "x">> \o HexDigits(n)

\* print(f"LABEL: {value:#x}"): one line of output.
PrintMask(label, value) == <<label, ":", " ">> \o FormatHex(value)

FSDIF_INT_RE_BIT == Shl(1, 1)
FSDIF_INT_CMD_BIT == Shl(1, 2)
FSDIF_INT_RCRC_BIT == Shl(1, 6)
FSDIF_INT_RTO_BIT == Shl(1, 8)
FSDIF_INT_HTO_BIT == Shl(1, 10)
FSDIF_INT_HLE_BIT == Shl(1, 12)

FSDIF_INT_DTO_BIT == Shl(1, 3)
FSDIF_INT_DCRC_BIT == Shl(1, 7)
FSDIF_INT_DRTO_BIT == Shl(1, 9)
FSDIF_INT_SBE_BCI_BIT == Shl(1, 13)

\* The command mask with the response-timeout bit left out.
FSDIF_INTS_CMD_MASK_no_rto ==
    BitOr(FSDIF_INT_RE_BIT, BitOr(FSDIF_INT_CMD_BIT, BitOr(FSDIF_INT_RCRC_BIT,
    BitOr(FSDIF_INT_HTO_BIT, FSDIF_INT_HLE_BIT))))

FSDIF_INTS_CMD_MASK ==
    BitOr(FSDIF_INT_RE_BIT, BitOr(FSDIF_INT_CMD_BIT, BitOr(FSDIF_INT_RCRC_BIT,
    BitOr(FSDIF_INT_RTO_BIT, BitOr(FSDIF_INT_HTO_BIT, FSDIF_INT_HLE_BIT)))))

\* The data mask with the command-done bit in place of the data-timeout bit.
FSDIF_INTS_DATA_MASK_cmd_bit ==
    BitOr(FSDIF_INT_CMD_BIT, BitOr(FSDIF_INT_DCRC_BIT,
    BitOr(FSDIF_INT_DRTO_BIT, FSDIF_INT_SBE_BCI_BIT)))

FSDIF_INTS_DATA_MASK ==
    BitOr(FSDIF_INT_DTO_BIT, BitOr(FSDIF_INT_DCRC_BIT,
    BitOr(FSDIF_INT_DRTO_BIT, FSDIF_INT_SBE_BCI_BIT)))

\* output_int_mask(): the two lines it prints.
output_int_mask ==
    << PrintMask("FSDIF_INTS_CMD_MASK", FSDIF_INTS_CMD_MASK),
       PrintMask("FSDIF_INTS_DATA_MASK", FSDIF_INTS_DATA_MASK) >>

FSDIF_DMAC_INT_ENA_FBE == Shl(1, 2)
FSDIF_DMAC_INT_ENA_DU == Shl(1, 4)
FSDIF_DMAC_INT_ENA_NIS == Shl(1, 8)
FSDIF_DMAC_INT_ENA_AIS == Shl(1, 9)

FSDIF_DMAC_INTS_MASK ==
    BitOr(FSDIF_DMAC_INT_ENA_FBE, BitOr(FSDIF_DMAC_INT_ENA_DU,
    BitOr(FSDIF_DMAC_INT_ENA_NIS, FSDIF_DMAC_INT_ENA_AIS)))

\* dmac_int_ena(): the line it prints.
dmac_int_ena ==
    << PrintMask("FSDIF_DMAC_INTS_MASK", FSDIF_DMAC_INTS_MASK) >>

(***************************************************************************)
(* The input files.  A line is chosen by its parts,                        *)
(*     lead head name sep addr tail                                        *)
(* and the file holds the characters of the parts in that order, each line *)
(* followed by its terminator (the last line possibly without one).  The   *)
(* scripts see the characters only; lines keeps the parts the file was     *)
(* written from.                                                           *)
(***************************************************************************)
BaseLine(h) ==
    [lead |-> <<>>, head |-> h, name |-> <<"G","p","A">>,
     sep |-> <<",", " ">>, addr |-> <<"0","x","4","0">>, tail |-> MacroTail]

BlankLine ==
    [lead |-> <<>>, head |-> <<>>, name |-> <<>>, sep |-> <<>>,
     addr |-> <<>>, tail |-> <<>>]

LinesWith(h) ==
    { BaseLine(h),
      [BaseLine(h) EXCEPT !.name = <<"r","_","1">>, !.sep = <<",">>,
                          !.addr = <<"B">>],
      [BaseLine(h) EXCEPT !.sep = <<" ">>],
      [BaseLine(h) EXCEPT !.sep = <<" ">>, !.tail = <<")">>],
      [BaseLine(h) EXCEPT !.sep = <<" ", ",">>],
      [BaseLine(h) EXCEPT !.tail = <<")">>],
      [BaseLine(h) EXCEPT !.tail = <<>>],
      [BaseLine(h) EXCEPT !.lead = <<" ">>],
      [BaseLine(h) EXCEPT !.name = <<>>],
      [BaseLine(h) EXCEPT !.addr = <<>>],
      [BaseLine(h) EXCEPT !.tail = MacroTail \o <<" ", "j">>],
      [BaseLine(h) EXCEPT !.tail =
          MacroTail \o h \o <<"Z", ",", "9">> \o MacroTail] }

InputLines == LinesWith(MacroHead0) \cup LinesWith(MacroHead1) \cup {BlankLine}

LineText(l) == l.lead \o l.head \o l.name \o l.sep \o l.addr \o l.tail

RECURSIVE FileText(_, _)
FileText(ls, final_newline) ==
    IF ls = <<>> THEN <<>>
    ELSE IF Len(ls) = 1
         THEN LineText(ls[1]) \o (IF final_newline THEN <<"\n">> ELSE <<>>)
         ELSE LineText(ls[1]) \o <<"\n">> \o FileText(Tail(ls), final_newline)

Generators == {"code_gen_xreg0", "code_gen_xreg1"}

Entries == Generators \cup {"temp", "temp_import"}

Variant == IF entry = "code_gen_xreg0" THEN 0 ELSE 1

(***************************************************************************)
(* The state: which script runs (entry; temp_import is temp.py imported    *)
(* as a module, its functions called by the importer), the input file and  *)
(* the read position in it, the loop variable input_str, the control       *)
(* state, what was printed, and the number of readline calls (of function  *)
(* calls, for the imported calculator) made so far.                        *)
(***************************************************************************)
Init ==
    /\ entry \in Entries
    /\ pc = "start"
    /\ pos = 1
    /\ input_str = <<>>
    /\ stdout = <<>>
    /\ count = 0
    /\ IF entry \in Generators
       THEN \E n \in 0..MaxLines :
              \E ls \in [1..n -> InputLines], final_newline \in BOOLEAN :
                 /\ final_newline \/ (n > 0 /\ LineText(ls[n]) # <<>>)
                 /\ lines = ls
                 /\ file = FileText(ls, final_newline)
       ELSE lines = <<>> /\ file = <<>>

\* A loop that stops at a blank line as it does at the end of the file.
LoopCond_stripped(s) == s # <<>> /\ s # <<"\n">>

\* while input_str: the empty string, read at the end of the file, is false.
LoopCond(s) == s # <<>>

\* with open(...) as file: input_str = file.readline()
Open ==
    /\ entry \in Generators
    /\ pc = "start"
    /\ input_str' = readline(file, pos)
    /\ pos' = pos + Len(input_str')
    /\ count' = count + 1
    /\ pc' = "loop"
    /\ UNCHANGED <<entry, file, stdout, lines>>

\* A loop body that catches the error and goes on with the next line.
LoopBody_skip_bad ==
    /\ entry \in Generators
    /\ pc = "loop"
    /\ LoopCond(input_str)
    /\ LET r == extract_macro_parameters(Variant, input_str)
       IN  /\ stdout' = IF r.raised THEN stdout
                        ELSE Append(stdout,
                                 generate_code(Variant, r.reg_name, r.reg_addr))
           /\ input_str' = readline(file, pos)
           /\ pos' = pos + Len(input_str')
           /\ count' = count + 1
           /\ pc' = "loop"
    /\ UNCHANGED <<entry, file, lines>>

\* One turn of the loop: extract (ValueError ends the run), print the
\* block, read the next line.
LoopBody ==
    /\ entry \in Generators
    /\ pc = "loop"
    /\ LoopCond(input_str)
    /\ LET r == extract_macro_parameters(Variant, input_str)
       IN  IF r.raised
           THEN /\ pc' = "error"
                /\ UNCHANGED <<input_str, pos, count, stdout>>
           ELSE /\ stdout' = Append(stdout,
                                 generate_code(Variant, r.reg_name, r.reg_addr))
                /\ input_str' = readline(file, pos)
                /\ pos' = pos + Len(input_str')
                /\ count' = count + 1
                /\ pc' = "loop"
    /\ UNCHANGED <<entry, file, lines>>

\* The loop ends at the end of the file and the script with it.
LoopExit ==
    /\ entry \in Generators
    /\ pc = "loop"
    /\ ~LoopCond(input_str)
    /\ pc' = "done"
    /\ UNCHANGED <<entry, file, pos, input_str, stdout, lines, count>>

\* python temp.py: the __main__ block calls dmac_int_ena() and nothing else.
TempMain ==
    /\ entry = "temp"
    /\ pc = "start"
    /\ stdout' = stdout \o dmac_int_ena
    /\ pc' = "done"
    /\ UNCHANGED <<entry, file, pos, input_str, lines, count>>

\* The importer of temp.py calls output_int_mask().
CallOutputIntMask ==
    /\ entry = "temp_import"
    /\ count < MaxCalls
    /\ stdout' = stdout \o output_int_mask
    /\ count' = count + 1
    /\ UNCHANGED <<entry, file, pos, input_str, pc, lines>>

\* The importer of temp.py calls dmac_int_ena().
CallDmacIntEna ==
    /\ entry = "temp_import"
    /\ count < MaxCalls
    /\ stdout' = stdout \o dmac_int_ena
    /\ count' = count + 1
    /\ UNCHANGED <<entry, file, pos, input_str, pc, lines>>

Next ==
    \/ Open
    \/ LoopBody
    \/ LoopExit
    \/ TempMain
    \/ CallOutputIntMask
    \/ CallDmacIntEna

Spec == Init /\ [][Next]_vars

(***************************************************************************)
(* Vocabulary of the properties.  A line is described by the parts it was  *)
(* written from, not by what the scripts extract from it.                  *)
(***************************************************************************)
IsWord(w) == w # <<>> /\ \A i \in DOMAIN w : w[i] \in WordChars

\* The line begins with MACRO!(NAME, ADDR); with nothing before the macro.
StartsWithInvocation(l, v) ==
    /\ l.lead = <<>>
    /\ l.head = MacroHead(v)
    /\ IsWord(l.name)
    /\ l.sep # <<>>
    /\ l.sep[1] = ","
    /\ \A i \in 2..Len(l.sep) : l.sep[i] \in Whitespace
    /\ IsWord(l.addr)
    /\ Len(l.tail) >= 2
    /\ SubSeq(l.tail, 1, 2) = <<")", ";">>

\* The line is MACRO!(NAME, ADDR); and nothing else.
WellFormed(l, v) == StartsWithInvocation(l, v) /\ l.tail = <<")", ";">>

\* The line is an invocation followed by more text after its semicolon.
HasTrailingContent(l, v) == StartsWithInvocation(l, v) /\ Len(l.tail) > 2

\* Block b is the template of variant v with every register-name
\* placeholder replaced by name and the address placeholder by addr.
IsBlockOf(b, v, name, addr) ==
    /\ DOMAIN b = DOMAIN Template(v)
    /\ \A j \in DOMAIN b :
          /\ [b[j] EXCEPT !.val = <<>>] = Template(v)[j]
          /\ Template(v)[j].ph = "reg_name" => b[j].val = name
          /\ Template(v)[j].ph = "reg_addr" => b[j].val = addr
          /\ Template(v)[j].ph = "" => b[j].val = <<>>

\* The line the loop variable holds, while the loop runs.
AtLine == entry \in Generators /\ pc = "loop" /\ input_str # <<>>

\* The loop variable holds the characters of line number count.
ReadsLinesInOrder ==
    AtLine =>
       /\ count \in DOMAIN lines
       /\ \/ input_str = LineText(lines[count]) \o <<"\n">>
          \/ input_str = LineText(lines[count]) /\ count = Len(lines)

\* C1: when every line of the input is MACRO!(NAME, ADDR); of the running
\* variant, no error is raised, the i-th block printed is the template
\* filled with the i-th line's NAME and ADDR, at every moment of the run,
\* and a finished run has printed exactly one block per line.
C1_OneBlockPerLineInOrder ==
    (entry \in Generators
       /\ \A i \in DOMAIN lines : WellFormed(lines[i], Variant))
    => /\ pc # "error"
       /\ Len(stdout) <= Len(lines)
       /\ \A i \in DOMAIN stdout :
             IsBlockOf(stdout[i], Variant, lines[i].name, lines[i].addr)
       /\ pc = "done" => Len(stdout) = Len(lines)

C1_Witness ==
    /\ entry \in Generators
    /\ pc = "done"
    /\ Len(lines) = 2
    /\ lines[1].name # lines[2].name
    /\ \A i \in DOMAIN lines : WellFormed(lines[i], Variant)
    /\ Len(stdout) = 2

HasMalformed ==
    \E k \in DOMAIN lines : ~StartsWithInvocation(lines[k], Variant)

FirstMalformed ==
    CHOOSE k \in DOMAIN lines :
       /\ ~StartsWithInvocation(lines[k], Variant)
       /\ \A j \in 1..(k - 1) : StartsWithInvocation(lines[j], Variant)

\* C3: when line k is the first one that does not match, the run never
\* prints more than the blocks of lines 1..k-1, prints them in input order,
\* never finishes normally, and stops in the error at line k with exactly
\* those k-1 blocks printed.
C3_AbortsAtFirstMalformed ==
    (entry \in Generators /\ HasMalformed)
    => /\ Len(stdout) <= FirstMalformed - 1
       /\ \A i \in DOMAIN stdout :
             IsBlockOf(stdout[i], Variant, lines[i].name, lines[i].addr)
       /\ pc # "done"
       /\ pc = "error" =>
             (count = FirstMalformed /\ Len(stdout) = FirstMalformed - 1)

C3_Witness ==
    /\ entry \in Generators
    /\ pc = "error"
    /\ Len(lines) = 2
    /\ FirstMalformed = 1
    /\ WellFormed(lines[2], Variant)
    /\ stdout = <<>>

(***************************************************************************)
(* Vocabulary of the properties of the mask calculator and of the bit      *)
(* layouts.                                                                *)
(***************************************************************************)
\* The number with exactly the bits of the positions in S set.
RECURSIVE MaskOfBits(_)
MaskOfBits(S) ==
    IF S = {} THEN 0
    ELSE LET k == CHOOSE k \in S : TRUE
         IN  2 ^ k + MaskOfBits(S \ {k})

HexDigitValue(c) ==
    CHOOSE d \in 0..15 : HexDigit(d) = c

\* The number a printed line shows: the digits after "LABEL: 0x".
RECURSIVE HexValue(_)
HexValue(digits) ==
    IF digits = <<>> THEN 0
    ELSE 16 * HexValue(SubSeq(digits, 1, Len(digits) - 1))
         + HexDigitValue(digits[Len(digits)])

ShownValue(line) == HexValue(SubSeq(line, 6, Len(line)))

RECURSIVE BitAnd(_, _)
BitAnd(x, y) ==
    IF x = 0 \/ y = 0 THEN 0
    ELSE (IF x % 2 = 1 /\ y % 2 = 1 THEN 1 ELSE 0)
         + 2 * BitAnd(x \div 2, y \div 2)

RECURSIVE OrAll(_)
OrAll(S) ==
    IF S = {} THEN 0
    ELSE LET x == CHOOSE x \in S : TRUE
         IN  BitOr(x, OrAll(S \ {x}))

Calculator == entry \in {"temp", "temp_import"}

\* The lines of the output that carry the given label.
Printed(label) ==
    {i \in DOMAIN stdout : stdout[i][1] = label}

\* C4 (as amended): every line output_int_mask prints for the command mask
\* reads FSDIF_INTS_CMD_MASK: 0x1546, the number with exactly the bits
\* 1, 2, 6, 8, 10 and 12 set.
C4_CmdMaskIs0x1546 ==
    Calculator =>
       \A i \in Printed("FSDIF_INTS_CMD_MASK") :
          /\ stdout[i] = <<"FSDIF_INTS_CMD_MASK", ":", " ",
                           "0", "x", "1", "5", "4", "6">>
          /\ ShownValue(stdout[i]) = MaskOfBits({1, 2, 6, 8, 10, 12})

C4_Witness ==
    /\ entry = "temp_import"
    /\ Printed("FSDIF_INTS_CMD_MASK") # {}

\* C4 (as claimed): the command mask output_int_mask prints is 0x1446.
C4_CmdMaskIs0x1446 ==
    Calculator =>
       \A i \in Printed("FSDIF_INTS_CMD_MASK") :
          stdout[i] = <<"FSDIF_INTS_CMD_MASK", ":", " ",
                        "0", "x", "1", "4", "4", "6">>

\* C5: the data mask output_int_mask prints is 0x2288, the bits 3, 7, 9 and
\* 13; the DMA interrupt-enable mask dmac_int_ena prints is 0x314, the bits
\* 2, 4, 8 and 9.
C5_DataAndDmaMasks ==
    Calculator =>
       /\ \A i \in Printed("FSDIF_INTS_DATA_MASK") :
             /\ stdout[i] = <<"FSDIF_INTS_DATA_MASK", ":", " ",
                              "0", "x", "2", "2", "8", "8">>
             /\ ShownValue(stdout[i]) = MaskOfBits({3, 7, 9, 13})
       /\ \A i \in Printed("FSDIF_DMAC_INTS_MASK") :
             /\ stdout[i] = <<"FSDIF_DMAC_INTS_MASK", ":", " ",
                              "0", "x", "3", "1", "4">>
             /\ ShownValue(stdout[i]) = MaskOfBits({2, 4, 8, 9})

C5_Witness ==
    /\ entry = "temp_import"
    /\ Printed("FSDIF_INTS_DATA_MASK") # {}
    /\ Printed("FSDIF_DMAC_INTS_MASK") # {}

\* C6: a finished run of the calculator script has printed two or more
\* lines, among them one for each of the three aggregate masks.
C6_RunPrintsEveryMask ==
    (entry = "temp" /\ pc = "done") =>
       /\ Len(stdout) >= 2
       /\ Printed("FSDIF_INTS_CMD_MASK") # {}
       /\ Printed("FSDIF_INTS_DATA_MASK") # {}
       /\ Printed("FSDIF_DMAC_INTS_MASK") # {}

\* genmask!(hi, lo): the contiguous mask of the bits hi down to lo.
GenMask(hi, lo) == MaskOfBits(lo..hi)

\* The constants a block declares, and among them the single bits (1 << n)
\* and the masks (genmask!(hi, lo)).
ConstsOf(b) == {j \in DOMAIN b : b[j].kind = "const"}

BitsOf(b) == {j \in ConstsOf(b) : b[j].op = "shl" /\ b[j].a = 1}

MasksOf(b) == {j \in ConstsOf(b) : b[j].op = "genmask"}

\* The field a constant belongs to: its name without the last part.
FieldOf(n) == SubSeq(n, 1, Len(n) - 1)

\* The single bits of a field of block b, those named BITn or EN.
FieldBits(b, f) == {j \in BitsOf(b) : FieldOf(b[j].name) = f}

\* The block declares the type name bound to the address addr.
Declares(b, name, addr) ==
    /\ \E j \in DOMAIN b :
          b[j] = [Subst("    struct ", "reg_name", ": u32 {")
                     EXCEPT !.val = name]
    /\ \E j \in DOMAIN b :
          b[j] = [Subst("    const REG: u32 = ", "reg_addr", ";")
                     EXCEPT !.val = addr]

\* Two field groups, each one enable bit, a 3-bit delicate subfield and a
\* 3-bit rough subfield, on the bit positions 0 to 14.
DelayLayout(b) ==
    /\ \A j \in ConstsOf(b) : b[j].name[1] \in {"OUT_DELAY", "IN_DELAY"}
    /\ \A g \in {"OUT_DELAY", "IN_DELAY"} :
          /\ Cardinality({j \in BitsOf(b) : b[j].name = <<g, "EN">>}) = 1
          /\ \A sub \in {"DELICATE", "ROUGH"} :
                /\ Cardinality(FieldBits(b, <<g, sub>>)) = 3
                /\ Cardinality({b[j].b : j \in FieldBits(b, <<g, sub>>)}) = 3
    /\ {b[j].b : j \in BitsOf(b)} \subseteq 0..14
    /\ \E j \in BitsOf(b) : b[j].b = 0
    /\ \E j \in BitsOf(b) : b[j].b = 14

\* C7 (as amended): every block variant B prints declares the type NAME of
\* its line bound to the line's ADDR and holds exactly 18 named constants,
\* 14 single bits and the 4 masks of the subfields, organised as two field
\* groups of one enable bit, a 3-bit delicate and a 3-bit rough subfield,
\* on the bit positions 0 to 14.
C7_DelayBlockHas18Constants ==
    entry = "code_gen_xreg1" =>
       \A i \in DOMAIN stdout :
          /\ Declares(stdout[i], lines[i].name, lines[i].addr)
          /\ Cardinality(ConstsOf(stdout[i])) = 18
          /\ Cardinality(BitsOf(stdout[i])) = 14
          /\ Cardinality(MasksOf(stdout[i])) = 4
          /\ DelayLayout(stdout[i])

C7_Witness ==
    /\ entry = "code_gen_xreg1"
    /\ Len(stdout) >= 1
    /\ WellFormed(lines[1], 1)

\* C7 (as claimed): every block variant B prints holds exactly 16 named bit
\* constants, whether the masks are counted among them or not.
C7_DelayBlockHas16Constants ==
    entry = "code_gen_xreg1" =>
       \A i \in DOMAIN stdout :
          /\ Declares(stdout[i], lines[i].name, lines[i].addr)
          /\ \/ Cardinality(ConstsOf(stdout[i])) = 16
             \/ Cardinality(BitsOf(stdout[i])) = 16
          /\ DelayLayout(stdout[i])

\* C8 (as amended): a blank line, holding nothing but its terminator, does
\* not match the pattern: it raises the malformed-input error, prints no
\* block and ends the run, so the lines after it are not read.
C8_BlankLineRaises ==
    [][(AtLine /\ input_str = <<"\n">>)
        => (pc' = "error" /\ stdout' = stdout /\ count' = count)]_vars

C8_Witness ==
    /\ entry \in Generators
    /\ pc = "error"
    /\ lines[count] = BlankLine
    /\ count < Len(lines)
    /\ WellFormed(lines[count + 1], Variant)

\* C8 (as claimed): a blank line raises no error, so no run stops in the
\* error at a blank line.
C8_BlankLineSkipped ==
    (entry \in Generators /\ pc = "error") => lines[count] # BlankLine

\* C9 (as amended): the pattern is matched at the start of the line only.
\* An invocation followed by more text after its semicolon raises no error
\* and prints one block, filled from the invocation the line begins with;
\* a line with whitespace before the macro name raises the error and
\* prints nothing.
C9_MatchedAtLineStartOnly ==
    [][AtLine =>
        /\ HasTrailingContent(lines[count], Variant) =>
              /\ pc' = "loop"
              /\ Len(stdout') = Len(stdout) + 1
              /\ SubSeq(stdout', 1, Len(stdout)) = stdout
              /\ IsBlockOf(stdout'[Len(stdout')], Variant,
                           lines[count].name, lines[count].addr)
        /\ lines[count].lead # <<>> =>
              (pc' = "error" /\ stdout' = stdout)]_vars

C9_Witness ==
    /\ entry = "code_gen_xreg0"
    /\ Len(stdout) = 2
    /\ lines[1].tail = MacroTail \o <<" ", "j">>
    /\ Len(lines[2].tail) > 4

\* C9 (as claimed): no block is printed for a line that holds text after
\* the semicolon of its invocation, nor for any line after it.
C9_TrailingContentRejected ==
    entry \in Generators =>
       \A i \in DOMAIN lines :
          HasTrailingContent(lines[i], Variant) => Len(stdout) < i

\* The bit layout of a block: every mask equals the OR of the single bits
\* of its own field, and no two single bits share a position.
LayoutConsistent(b) ==
    /\ \A m \in MasksOf(b) :
          /\ FieldBits(b, FieldOf(b[m].name)) # {}
          /\ GenMask(b[m].a, b[m].b)
                = OrAll({Shl(b[j].a, b[j].b) :
                            j \in FieldBits(b, FieldOf(b[m].name))})
    /\ \A j, k \in BitsOf(b) :
          FieldOf(b[j].name) # FieldOf(b[k].name) => b[j].b # b[k].b

\* C10: in every block either generator prints, each genmask!(hi, lo)
\* constant equals the OR of the BITn constants of its own field and the
\* fields are pairwise disjoint; the command mask and the data mask the
\* calculator prints share no bit.
C10_BitLayoutConsistent ==
    /\ entry \in Generators =>
          \A i \in DOMAIN stdout : LayoutConsistent(stdout[i])
    /\ Calculator =>
          \A i \in Printed("FSDIF_INTS_CMD_MASK") :
             \A j \in Printed("FSDIF_INTS_DATA_MASK") :
                BitAnd(ShownValue(stdout[i]), ShownValue(stdout[j])) = 0

C10_Witness ==
    /\ entry = "code_gen_xreg0"
    /\ Len(stdout) >= 1
    /\ MasksOf(stdout[1]) # {}
    /\ pc = "done"

====
